---- MODULE Spec2Model ----
(***************************************************************************)
(* Handwritten-digit recogniser (script.js and its resizable twin):        *)
(* startup / model loading, the drawing surface, the preprocessing         *)
(* functions and the test-time-augmentation predict handler.               *)
(*                                                                         *)
(* Real numbers are exact rationals [num, den] with den > 0, except the     *)
(* scale and the scaled dimensions, which are IEEE-754 doubles.            *)
(* JavaScript null is the record Null.                                     *)
(***************************************************************************)
EXTENDS Integers, Sequences, FiniteSets, TLC

\* ------------------------------------------------------------------------
\* Bounds of the model
\* ------------------------------------------------------------------------
\* largest canvas of the application model (resize picks 1..MaxCW x 1..MaxCH)
MaxCW == 2
MaxCH == 1
\* number of predict invocations (past the model check) followed in one behaviour
MaxClicks == 2
\* largest raster handed to the preprocessing functions on their own
MaxW == 3
MaxH == 2
\* most non-zero samples of such a raster
MaxInk == 3

\* ------------------------------------------------------------------------
\* Values
\* ------------------------------------------------------------------------
Null == [null |-> TRUE]

Rat(n, d) == [num |-> n, den |-> d]
RatLT(a, b) == a.num * b.den < b.num * a.den
RatEQ(a, b) == a.num * b.den = b.num * a.den

\* sums keep a common denominator when there is one, so the numbers stay small
RatAdd(a, b) ==
    IF a.den = b.den THEN Rat(a.num + b.num, a.den)
    ELSE Rat(a.num * b.den + b.num * a.den, a.den * b.den)
RatMulInt(a, n) == Rat(a.num * n, a.den)
RatDivInt(a, n) == Rat(a.num, a.den * n)

\* channel-0 bytes a sample takes in the model: background, the threshold
\* itself, the first value above it, and full ink
SampleVals == {0, 50, 51, 255}
\* what a stroke leaves on a sample of the application's canvas: a faint
\* antialiased edge at the threshold, or solid ink
DrawVals == {50, 255}

\* hiddenCtx.getImageData(0,0,w,h).data: 4 bytes per sample, white-on-black
\* ink has R = G = B, the canvas is opaque
ImageData(chan0, w, h) ==
    [k \in 0 .. (4 * w * h - 1) |-> IF k % 4 = 3 THEN 255 ELSE chan0[k \div 4]]

\* ------------------------------------------------------------------------
\* 5. PREPROCESSING
\* ------------------------------------------------------------------------
RECURSIVE bbScan(_, _, _, _, _)
bbScan(data, w, h, k, acc) ==
    IF k >= w * h THEN acc
    ELSE LET x == k % w
             y == k \div w
         IN  bbScan(data, w, h, k + 1,
                IF data[(y * w + x) * 4] > 50
                THEN [minX  |-> IF x < acc.minX THEN x ELSE acc.minX,
                      maxX  |-> IF x > acc.maxX THEN x ELSE acc.maxX,
                      minY  |-> IF y < acc.minY THEN y ELSE acc.minY,
                      maxY  |-> IF y > acc.maxY THEN y ELSE acc.maxY,
                      found |-> TRUE]
                ELSE acc)

\* getBoundingBox with the inclusive "+ 1" of width and height left out
getBoundingBoxExclusive(data, w, h) ==
    LET r == bbScan(data, w, h, 0,
                    [minX |-> w, minY |-> h, maxX |-> 0, maxY |-> 0, found |-> FALSE])
    IN  IF r.found
        THEN [minX |-> r.minX, minY |-> r.minY,
              w |-> r.maxX - r.minX, h |-> r.maxY - r.minY]
        ELSE Null

getBoundingBox(data, w, h) ==
    LET r == bbScan(data, w, h, 0,
                    [minX |-> w, minY |-> h, maxX |-> 0, maxY |-> 0, found |-> FALSE])
    IN  IF r.found
        THEN [minX |-> r.minX, minY |-> r.minY,
              w |-> r.maxX - r.minX + 1, h |-> r.maxY - r.minY + 1]
        ELSE Null

\* comScan counting every ink sample once instead of weighting it by intensity
RECURSIVE comScanUnweighted(_, _, _, _, _)
comScanUnweighted(data, w, h, k, acc) ==
    IF k >= w * h THEN acc
    ELSE LET x   == k % w
             y   == k \div w
             val == data[(y * w + x) * 4]
         IN  comScanUnweighted(data, w, h, k + 1,
                IF val > 50
                THEN [sumX |-> acc.sumX + x,
                      sumY |-> acc.sumY + y,
                      mass |-> acc.mass + 1]
                ELSE acc)

RECURSIVE comScan(_, _, _, _, _)
comScan(data, w, h, k, acc) ==
    IF k >= w * h THEN acc
    ELSE LET x   == k % w
             y   == k \div w
             val == data[(y * w + x) * 4]
         IN  comScan(data, w, h, k + 1,
                IF val > 50
                THEN [sumX |-> acc.sumX + x * val,
                      sumY |-> acc.sumY + y * val,
                      mass |-> acc.mass + val]
                ELSE acc)

getCenterOfMass(data, w, h) ==
    LET r == comScan(data, w, h, 0, [sumX |-> 0, sumY |-> 0, mass |-> 0])
    IN  IF r.mass = 0 THEN Null
        ELSE [x |-> Rat(r.sumX, r.mass), y |-> Rat(r.sumY, r.mass)]

\* const scale = 20 / Math.max(bbox.w, bbox.h); sw = bbox.w*scale; sh = bbox.h*scale
Max2(a, b) == IF a > b THEN a ELSE b

\* --- JavaScript numbers (IEEE-754 doubles) where their rounding shows -------
\* A positive finite double has 53 significant bits: a leading 1 and 52
\* fraction bits, kept as four 13-bit limbs m[1..4], most significant first:
\*   value = (2^52 + m[1]*2^39 + m[2]*2^26 + m[3]*2^13 + m[4]) * 2^exp
Limb == 8192
Dbl(m, exp) == [m |-> m, exp |-> exp]
\* 20 / 0 in JavaScript
Infinity == [inf |-> TRUE]

\* the next double above x
succ(x) ==
    IF \A i \in 1 .. 4 : x.m[i] = Limb - 1
    THEN Dbl(<< 0, 0, 0, 0 >>, x.exp + 1)
    ELSE LET j == CHOOSE i \in 1 .. 4 :
                    x.m[i] # Limb - 1 /\ \A n \in (i + 1) .. 4 : x.m[n] = Limb - 1
         IN  Dbl([i \in 1 .. 4 |-> IF i < j THEN x.m[i]
                                   ELSE IF i = j THEN x.m[i] + 1 ELSE 0], x.exp)

\* round to nearest, ties to even: t is the exact result cut to 53 bits, guard
\* the first bit cut off, sticky whether a non-zero bit follows it
roundNearestEven(t, guard, sticky) ==
    IF guard = 1 /\ (sticky \/ t.m[4] % 2 = 1) THEN succ(t) ELSE t

\* a / b scaled by a power of two into [1, 2): << A, B, e >> with
\* B <= A < 2B and a / b = (A / B) * 2^e
RECURSIVE normalise(_, _, _)
normalise(A, B, e) ==
    IF A < B THEN normalise(2 * A, B, e - 1)
    ELSE IF A >= 2 * B THEN normalise(A, 2 * B, e + 1)
    ELSE << A, B, e >>

\* a / b for positive integers a and b >= 0 (below 2^17), correctly rounded:
\* long division, 13 quotient bits at a time, then the guard bit
fdiv(a, b) ==
    IF b = 0 THEN Infinity
    ELSE LET nm == normalise(a, b, 0)
             B  == nm[2]
             r0 == nm[1] - B
             q1 == (r0 * Limb) \div B
             r1 == (r0 * Limb) % B
             q2 == (r1 * Limb) \div B
             r2 == (r1 * Limb) % B
             q3 == (r2 * Limb) \div B
             r3 == (r2 * Limb) % B
             q4 == (r3 * Limb) \div B
             r4 == (r3 * Limb) % B
             g  == (2 * r4) \div B
             r5 == (2 * r4) % B
         IN  roundNearestEven(Dbl(<< q1, q2, q3, q4 >>, nm[3] - 52), g, r5 # 0)

\* the number of binary digits of a positive integer
RECURSIVE bitLength(_)
bitLength(n) == IF n = 0 THEN 0 ELSE 1 + bitLength(n \div 2)

\* x * k for a double x and a positive integer k below 2^13, correctly
\* rounded: the exact product limb by limb, then cut back to 53 bits
fmul(x, k) ==
    IF x = Infinity THEN Infinity
    ELSE LET t4  == x.m[4] * k
             t3  == x.m[3] * k + (t4 \div Limb)
             t2  == x.m[2] * k + (t3 \div Limb)
             t1  == x.m[1] * k + (t2 \div Limb)
             top == k + (t1 \div Limb)
             d   == bitLength(top) - 1
             p   == 2 ^ d
             up  == Limb \div p
             o   == << top - p, t1 % Limb, t2 % Limb, t3 % Limb, t4 % Limb >>
             cut == o[5] % p
         IN  roundNearestEven(
                 Dbl([i \in 1 .. 4 |-> (o[i] % p) * up + (o[i + 1] \div p)],
                     x.exp + d),
                 IF d = 0 THEN 0 ELSE cut \div (p \div 2),
                 d > 0 /\ cut % (p \div 2) # 0)

\* the double that is the positive integer n (n < 2^14)
number(n) ==
    LET e == bitLength(n) - 1
    IN  Dbl(<< (n - 2 ^ e) * (Limb \div (2 ^ e)), 0, 0, 0 >>, e - 52)

\* x < y, x <= y
dblLT(x, y) ==
    \/ x.exp < y.exp
    \/ /\ x.exp = y.exp
       /\ \E i \in 1 .. 4 : /\ x.m[i] < y.m[i]
                             /\ \A n \in 1 .. (i - 1) : x.m[n] = y.m[n]
dblLE(x, y) == x = y \/ dblLT(x, y)

\* scale = 20 / Math.max(bbox.w, bbox.h) by the smaller dimension instead
scaledByMin(bw, bh) ==
    LET scale == fdiv(20, IF bw < bh THEN bw ELSE bh)
    IN  [scale |-> scale, sw |-> fmul(scale, bw), sh |-> fmul(scale, bh)]

\* scale = 20 / Math.max(bbox.w, bbox.h); sw = bbox.w * scale; sh = bbox.h * scale
scaled(bw, bh) ==
    LET scale == fdiv(20, Max2(bw, bh))
    IN  [scale |-> scale, sw |-> fmul(scale, bw), sh |-> fmul(scale, bh)]

\* extractInputTensor failing to build the horizontally shifted frames
extractInputTensorVertical(chan0, w, h, shiftX, shiftY) ==
    LET rawData == ImageData(chan0, w, h)
        bbox    == getBoundingBox(rawData, w, h)
    IN  IF bbox = Null \/ shiftX # 0 THEN Null
        ELSE LET dims == scaled(bbox.w, bbox.h)
             IN  [shiftX |-> shiftX, shiftY |-> shiftY, bbox |-> bbox,
                  sw  |-> dims.sw,
                  sh  |-> dims.sh,
                  src |-> [w |-> w, h |-> h, chan0 |-> chan0]]

\* One frame of the batch.  The 784 floats are what the browser's resampling
\* makes of the cropped region; the frame is kept as the inputs that decide
\* them: the raster read, the box found in it, the scaled size and the shift.
extractInputTensor(chan0, w, h, shiftX, shiftY) ==
    LET rawData == ImageData(chan0, w, h)
        bbox    == getBoundingBox(rawData, w, h)
    IN  IF bbox = Null THEN Null
        ELSE LET dims == scaled(bbox.w, bbox.h)
             IN  [shiftX |-> shiftX, shiftY |-> shiftY, bbox |-> bbox,
                  sw  |-> dims.sw,
                  sh  |-> dims.sh,
                  src |-> [w |-> w, h |-> h, chan0 |-> chan0]]

\* side of the temp, scaler and helper canvases
TempSize == 28

\* tCtx.getImageData(0, 0, 28, 28).data after fillRect black and the final
\* drawImage.  Which pixels the smoothed drawImage touches and the bytes it
\* leaves there are the browser's choice: here the touched pixels are those of
\* rect (none when x1 < x0), holding b1 and b2 in a checkerboard; the rest stay
\* black.  Grey ink has R = G = B and the canvas is opaque.
tempImageData(rect, b1, b2) ==
    [k \in 0 .. (4 * TempSize * TempSize - 1) |->
        LET x == (k \div 4) % TempSize
            y == (k \div 4) \div TempSize
        IN  IF k % 4 = 3 THEN 255
            ELSE IF /\ rect.x0 <= x /\ x <= rect.x1
                    /\ rect.y0 <= y /\ y <= rect.y1
                 THEN (IF (x + y) % 2 = 0 THEN b1 ELSE b2)
                 ELSE 0]

\* val = finalData[i] / 255.0; val = Math.min(1.0, val * 1.3)
boost(byte) ==
    LET val == Rat(byte * 13, 255 * 10)
    IN  IF RatLT(Rat(1, 1), val) THEN Rat(1, 1) ELSE val

\* the readback loop stepping by one byte instead of one pixel
inputEveryByte(finalData) ==
    [p \in 1 .. Cardinality(DOMAIN finalData) |-> boost(finalData[p - 1])]

\* for(i = 0; i < finalData.length; i += 4) input.push(..finalData[i]..)
input(finalData) ==
    [p \in 1 .. ((Cardinality(DOMAIN finalData) + 3) \div 4) |->
        boost(finalData[4 * (p - 1)])]

\* ------------------------------------------------------------------------
\* 6. INFERENCE (TTA): the pure part of the predict handler
\* ------------------------------------------------------------------------
shifts == << <<0, 0>>, <<0, 1>>, <<0, -1>>, <<1, 0>>, <<-1, 0>> >>

\* the loop without its "if(inp)": a null frame is pushed like any other
RECURSIVE buildBatchPushAll(_, _, _, _, _)
buildBatchPushAll(chan0, w, h, k, acc) ==
    IF k > Len(shifts) THEN acc
    ELSE buildBatchPushAll(chan0, w, h, k + 1,
            Append(acc, extractInputTensor(chan0, w, h, shifts[k][1], shifts[k][2])))

\* for(let s of shifts) { inp = extractInputTensor(..); if(inp) push }
RECURSIVE buildBatch(_, _, _, _, _)
buildBatch(chan0, w, h, k, acc) ==
    IF k > Len(shifts) THEN acc
    ELSE LET inp == extractInputTensor(chan0, w, h, shifts[k][1], shifts[k][2])
         IN  buildBatch(chan0, w, h, k + 1,
                        IF inp # Null THEN Append(acc, inp) ELSE acc)

\* avg[j] += probs[i*10 + j] over i < n: column j's running sum, rows in order
\* (probs is 0-based, row-major)
RECURSIVE sumRows(_, _, _, _, _)
sumRows(probs, n, j, i, acc) ==
    IF i >= n THEN acc
    ELSE sumRows(probs, n, j, i + 1, RatAdd(acc, probs[i * 10 + j]))

\* average dividing by the number of shifts instead of the number of rows
averageByShifts(probs, n) ==
    [j \in 0 .. 9 |-> RatDivInt(sumRows(probs, n, j, 0, Rat(0, 1)), Len(shifts))]

\* the averaged vector: new Array(10).fill(0), the double loop, avg[j] /= n
average(probs, n) ==
    [j \in 0 .. 9 |-> RatDivInt(sumRows(probs, n, j, 0, Rat(0, 1)), n)]

\* Math.max(...avg)
RECURSIVE maxFrom(_, _, _)
maxFrom(avg, j, m) ==
    IF j > 9 THEN m ELSE maxFrom(avg, j + 1, IF RatLT(m, avg[j]) THEN avg[j] ELSE m)
mathMax(avg) == maxFrom(avg, 1, avg[0])

\* avg.indexOf(max): the first index holding the value
RECURSIVE indexFrom(_, _, _)
indexFrom(avg, m, j) ==
    IF j > 9 THEN -1 ELSE IF RatEQ(avg[j], m) THEN j ELSE indexFrom(avg, m, j + 1)
indexOf(avg, m) == indexFrom(avg, m, 0)

\* Array.prototype.sort((a, b) => b.p - a.p): a stable sort (every engine is
\* stable on 10 elements); insertion from the left keeps equal keys in order
\* insertion that lets an item pass the entries equal to it: an unstable sort
RECURSIVE insertUnstable(_, _)
insertUnstable(sorted, item) ==
    IF sorted = << >> THEN << item >>
    ELSE LET lastE == sorted[Len(sorted)]
         IN  IF ~RatLT(item.p, lastE.p)
             THEN Append(insertUnstable(SubSeq(sorted, 1, Len(sorted) - 1), item), lastE)
             ELSE Append(sorted, item)

RECURSIVE insertSorted(_, _)
insertSorted(sorted, item) ==
    IF sorted = << >> THEN << item >>
    ELSE LET lastE == sorted[Len(sorted)]
         IN  IF RatLT(lastE.p, item.p)
             THEN Append(insertSorted(SubSeq(sorted, 1, Len(sorted) - 1), item), lastE)
             ELSE Append(sorted, item)

RECURSIVE sortFrom(_, _, _)
sortFrom(avg, j, sorted) ==
    IF j > 9 THEN sorted
    ELSE sortFrom(avg, j + 1, insertSorted(sorted, [p |-> avg[j], i |-> j]))

\* avg.map((p, i) => ({p, i})).sort(...).slice(0, 3)
contendersOf(avg) == SubSeq(sortFrom(avg, 0, << >>), 1, 3)

\* (x * 100).toFixed(1): tenths of a percent, rounded to nearest
toFixed1(p) == (2000 * p.num + p.den) \div (2 * p.den)

\* innerText = idx: the number as text
DigitText == << "0", "1", "2", "3", "4", "5", "6", "7", "8", "9" >>
numberText(idx) == DigitText[idx + 1]

\* ------------------------------------------------------------------------
\* State
\* ------------------------------------------------------------------------
VARIABLES
    tfDefined,        \* typeof tf !== 'undefined'
    phase,            \* where initApp stands: "onload", "setBackend", "loadModel", "done"
    model,            \* "null" or "loaded"
    statusText,       \* statusText.innerText
    btnDisabled,      \* predictBtn.disabled
    cw, ch,           \* canvas.width / height, the same for hiddenCanvas
    hidden,           \* channel 0 of the hidden canvas, index y*cw + x
    isDrawing, lastX, lastY,
    predictionResult, \* predictionResult.innerText
    confidenceValue,  \* tenths of a percent shown, Null while it is the markup's
    confidenceBar,    \* [width, color]
    contendersList,   \* [rows |-> ...], Null while it is the markup's
    sensor,           \* what the 28x28 sensor canvas shows
    latencyMetric,
    dummy,            \* the warm-up tensor of initApp: "none", "live", "disposed"
    invs,             \* the predict invocations so far, in click order; rows is the
                      \* batch while the invocation is in flight
    fnIn, fnOut       \* argument and result of a preprocessing / ranking call on its own

appVars == << tfDefined, phase, model, statusText, btnDisabled, cw, ch, hidden,
              isDrawing, lastX, lastY, predictionResult, confidenceValue,
              confidenceBar, contendersList, sensor, latencyMetric, dummy, invs >>
fnVars  == << fnIn, fnOut >>
vars    == << appVars, fnVars >>

display == << predictionResult, confidenceValue, confidenceBar, contendersList,
              sensor, latencyMetric >>
canvasVars == << cw, ch, hidden >>
penVars == << isDrawing, lastX, lastY >>
loadVars == << tfDefined, phase, model, statusText, btnDisabled, dummy >>

Blank(w, h) == [k \in 0 .. (w * h - 1) |-> 0]

\* State when the script has run and window.onload has not fired yet.  What
\* the page's markup sets (canvas size, button state, texts) is not fixed by
\* the script: the size and the button state are any, the texts are "markup".
AppInit ==
    /\ tfDefined \in BOOLEAN
    /\ phase = "onload"
    /\ model = "null"
    /\ statusText = "markup"
    /\ btnDisabled \in BOOLEAN
    /\ cw \in 1 .. MaxCW
    /\ ch \in 1 .. MaxCH
    /\ hidden = Blank(cw, ch)
    /\ isDrawing = FALSE /\ lastX = 0 /\ lastY = 0
    /\ predictionResult = "markup"
    /\ confidenceValue = Null
    /\ confidenceBar = [width |-> Null, color |-> "markup"]
    /\ contendersList = Null
    /\ sensor = "markup"
    /\ latencyMetric = "markup"
    /\ dummy = "none"
    /\ invs = << >>

Init == AppInit /\ fnIn = Null /\ fnOut = Null

\* ------------------------------------------------------------------------
\* 4. DRAWING ENGINE
\* ------------------------------------------------------------------------
\* clearBoard(): the assignments, as a conjunction over the primed variables
clearBoard(w, h) ==
    /\ hidden' = Blank(w, h)
    /\ sensor' = "black"
    /\ predictionResult' = "?"
    /\ confidenceValue' = [tenths |-> 0]
    /\ confidenceBar' = [confidenceBar EXCEPT !.width = Rat(0, 1)]
    /\ contendersList' = [rows |-> << >>]
    /\ UNCHANGED latencyMetric

\* clearBtn click
ClearClick ==
    /\ clearBoard(cw, ch)
    /\ UNCHANGED << cw, ch, penVars, loadVars, invs, fnVars >>

\* resizeCanvas(): the container is now w x h; a changed size resets and clears
resizeCanvas(w, h) ==
    IF cw # w \/ ch # h
    THEN /\ cw' = w /\ ch' = h
         /\ clearBoard(w, h)
    ELSE UNCHANGED << canvasVars, display >>

\* the debounced window resize listener, registered by initApp after the tf check
Resize ==
    /\ tfDefined /\ phase # "onload"
    /\ \E w \in 1 .. MaxCW, h \in 1 .. MaxCH : resizeCanvas(w, h)
    /\ UNCHANGED << penVars, loadVars, invs, fnVars >>

\* the samples a stroke from (x0,y0) to (x1,y1) covers
Segment(x0, y0, x1, y1) ==
    { k \in 0 .. (cw * ch - 1) :
        LET x == k % cw
            y == k \div cw
        IN  /\ (x0 <= x /\ x <= x1) \/ (x1 <= x /\ x <= x0)
            /\ (y0 <= y /\ y <= y1) \/ (y1 <= y /\ y <= y0)
            /\ (x - x0) * (y1 - y0) = (y - y0) * (x1 - x0) }

\* white ink composited with coverage v never darkens a sample
Paint(px, v) ==
    [k \in 0 .. (cw * ch - 1) |->
        IF k \in px /\ hidden[k] < v THEN v ELSE hidden[k]]

\* mousedown / touchstart
start ==
    \E x \in 0 .. (cw - 1), y \in 0 .. (ch - 1), v \in DrawVals :
        /\ isDrawing' = TRUE
        /\ lastX' = x /\ lastY' = y
        /\ hidden' = Paint({y * cw + x}, v)
        /\ UNCHANGED << cw, ch, display, loadVars, invs, fnVars >>

\* mousemove / touchmove
move ==
    /\ isDrawing
    /\ \E x \in 0 .. (cw - 1), y \in 0 .. (ch - 1), v \in DrawVals :
        /\ hidden' = Paint(Segment(lastX, lastY, x, y), v)
        /\ lastX' = x /\ lastY' = y
        /\ UNCHANGED << isDrawing, cw, ch, display, loadVars, invs, fnVars >>

\* mouseup / touchend
end ==
    /\ isDrawing' = FALSE
    /\ UNCHANGED << lastX, lastY, canvasVars, display, loadVars, invs, fnVars >>

\* ------------------------------------------------------------------------
\* 3. STARTUP
\* ------------------------------------------------------------------------
\* window.onload with no tf library: status only, nothing else is set up
InitAppNoTf ==
    /\ phase = "onload" /\ ~tfDefined
    /\ statusText' = "TF_LIB_ERROR"
    /\ phase' = "done"
    /\ UNCHANGED << tfDefined, model, btnDisabled, dummy, canvasVars, penVars,
                    display, invs, fnVars >>

\* initCanvas() of the fixed-size page: size both canvases, then clearBoard()
initCanvas(w, h) ==
    /\ cw' = w /\ ch' = h
    /\ clearBoard(w, h)

\* window.onload with tf present, up to the first await (tf.setBackend)
InitAppStart ==
    /\ phase = "onload" /\ tfDefined
    /\ \E w \in 1 .. MaxCW, h \in 1 .. MaxCH :
          \/ initCanvas(w, h)
          \/ resizeCanvas(w, h)
    /\ phase' = "setBackend"
    /\ UNCHANGED << tfDefined, model, statusText, btnDisabled, dummy, penVars,
                    invs, fnVars >>

\* catch (e) { updateStatus("Model Error", "error"); alert(..) }
catchLoadError ==
    /\ statusText' = "Model Error"
    /\ phase' = "done"

SetBackendResolved ==
    /\ phase = "setBackend"
    /\ phase' = "loadModel"
    /\ UNCHANGED << tfDefined, model, statusText, btnDisabled, dummy, canvasVars,
                    penVars, display, invs, fnVars >>

SetBackendRejected ==
    /\ phase = "setBackend"
    /\ catchLoadError
    /\ UNCHANGED << tfDefined, model, btnDisabled, dummy, canvasVars, penVars,
                    display, invs, fnVars >>

LoadModelRejected ==
    /\ phase = "loadModel"
    /\ catchLoadError
    /\ UNCHANGED << tfDefined, model, btnDisabled, dummy, canvasVars, penVars,
                    display, invs, fnVars >>

\* tf.loadLayersModel resolved: model is assigned, then the warm-up runs in the
\* same turn; model.predict(dummy) either returns or throws into the catch
LoadModelResolved ==
    /\ phase = "loadModel"
    /\ model' = "loaded"
    /\ \/ /\ dummy' = "disposed"
          /\ statusText' = "System Ready"
          /\ btnDisabled' = FALSE
          /\ phase' = "done"
       \/ /\ dummy' = "live"
          /\ catchLoadError
          /\ UNCHANGED btnDisabled
    /\ UNCHANGED << tfDefined, canvasVars, penVars, display, invs, fnVars >>

\* ------------------------------------------------------------------------
\* 6. INFERENCE (TTA): the predict handler
\* ------------------------------------------------------------------------
\* rows a model may return, in twentieths
RowInts ==
    { << 2, 1, 12, 0, 1, 0, 2, 0, 2, 0 >>,
      << 0, 0, 0, 0, 0, 0, 0, 20, 0, 0 >>,
      << 5, 5, 0, 0, 0, 5, 0, 0, 0, 5 >> }

\* preds.data(): n rows of 10, flattened row-major, 0-based
flatten(rows) ==
    [k \in 0 .. (Len(rows) * 10 - 1) |->
        Rat(rows[(k \div 10) + 1][(k % 10) + 1], 20)]

Inv(pc, n, calls, batch, preds, rows) ==
    [pc |-> pc, n |-> n, calls |-> calls, batch |-> batch, preds |-> preds,
     rows |-> rows]

\* the model called once per frame instead of once per batch
submitPerFrame(batchInputs) ==
    { [pc |-> "await", n |-> Len(batchInputs), calls |-> Len(batchInputs),
       batch |-> "live", preds |-> "live", rows |-> batchInputs],
      [pc |-> "threw", n |-> Len(batchInputs), calls |-> 1,
       batch |-> "live", preds |-> "none", rows |-> << >>] }

\* batch = tf.tensor2d(batchInputs); preds = model.predict(batch): one call,
\* which returns preds (the handler goes on to await preds.data()) or throws
submit(batchInputs) ==
    { Inv("await", Len(batchInputs), 1, "live", "live", batchInputs),
      Inv("threw", Len(batchInputs), 1, "live", "none", << >>) }

\* predictBtn click, up to the return or to the await of preds.data().  A
\* disabled button delivers no click.
PredictClick ==
    /\ ~btnDisabled
    /\ IF model = "null"
       THEN \* if(!model) return
            UNCHANGED << invs, display >>
       ELSE \E batchInputs \in { buildBatch(hidden, cw, ch, 1, << >>) } :
                /\ Len(invs) < MaxClicks
                \* extractInputTensor(0, 0) paints the sensor when it has a frame
                /\ sensor' = IF extractInputTensor(hidden, cw, ch, 0, 0) # Null
                             THEN "digit" ELSE sensor
                /\ IF Len(batchInputs) = 0
                   THEN /\ predictionResult' = "?"
                        /\ invs' = Append(invs, Inv("noink", 0, 0, "none", "none", << >>))
                   ELSE /\ UNCHANGED predictionResult
                        /\ \E new \in submit(batchInputs) : invs' = Append(invs, new)
                /\ UNCHANGED << confidenceValue, confidenceBar, contendersList,
                                latencyMetric >>
    /\ UNCHANGED << canvasVars, penVars, loadVars, fnVars >>

barColor(max) ==
    IF RatLT(Rat(9, 10), max) THEN "#00FF00"
    ELSE IF RatLT(Rat(6, 10), max) THEN "#FFFF00"
    ELSE "#FF0000"

\* what the handler derives from probs after the await
resultOf(avg, max) ==
    [avg |-> avg, max |-> max, idx |-> indexOf(avg, max),
     sorted |-> contendersOf(avg)]
resultAvg(avg) == resultOf(avg, mathMax(avg))
result(probs, n) == resultAvg(average(probs, n))

\* for each batch size n, what result() makes of every n rows a model may return
Outcomes ==
    UNION { { [n |-> n, r |-> result(flatten(rows), n)] : rows \in [1 .. n -> RowInts] } :
            n \in 1 .. Len(shifts) }

\* preds.data() resolved: the rest of the handler, r being result(probs, n)
PredictResume(i, r) ==
    /\ invs[i].pc = "await"
    /\ predictionResult' = numberText(r.idx)
    /\ confidenceValue' = [tenths |-> toFixed1(r.max)]
    /\ confidenceBar' = [width |-> RatMulInt(r.max, 100), color |-> barColor(r.max)]
    /\ latencyMetric' = "Latency"
    /\ contendersList' =
         [rows |-> [k \in 1 .. 3 |->
             [i |-> r.sorted[k].i, pct |-> toFixed1(r.sorted[k].p)]]]
    /\ invs' = [invs EXCEPT ![i] = Inv("done", @.n, @.calls, "disposed", "disposed", << >>)]
    /\ UNCHANGED << sensor, canvasVars, penVars, loadVars, fnVars >>

\* a handler that answers a rejected preds.data() by calling the model again
PredictDataRetried(i) ==
    /\ invs[i].pc = "await"
    /\ invs' = [invs EXCEPT ![i].calls = @ + 1]
    /\ UNCHANGED << display, canvasVars, penVars, loadVars, fnVars >>

\* preds.data() rejected: the handler's promise rejects at the await
PredictDataRejected(i) ==
    /\ invs[i].pc = "await"
    /\ invs' = [invs EXCEPT ![i] = Inv("threw", @.n, @.calls, "live", "live", << >>)]
    /\ UNCHANGED << display, canvasVars, penVars, loadVars, fnVars >>

DataResolved ==
    \E i \in 1 .. Len(invs) :
        \E o \in Outcomes : o.n = invs[i].n /\ PredictResume(i, o.r)

DataRejected == \E i \in 1 .. Len(invs) : PredictDataRejected(i)

Next ==
    \/ InitAppNoTf
    \/ InitAppStart
    \/ SetBackendResolved
    \/ SetBackendRejected
    \/ LoadModelRejected
    \/ LoadModelResolved
    \/ ClearClick
    \/ Resize
    \/ start
    \/ move
    \/ end
    \/ PredictClick
    \/ DataResolved
    \/ DataRejected

Spec == Init /\ [][Next]_vars

\* ------------------------------------------------------------------------
\* The preprocessing and ranking functions on their own: one call of one
\* function on an argument drawn from the bounded sets below
\* ------------------------------------------------------------------------
\* a raster of w x h samples whose non-zero samples are those of S, valued by f
RasterArgs(w, h, S, f) ==
    [kind |-> "raster", w |-> w, h |-> h,
     chan0 |-> [k \in 0 .. (w * h - 1) |-> IF k \in S THEN f[k] ELSE 0]]

\* rows of a model's answer, in twentieths; the last one does not sum to 1
FnRowInts ==
    RowInts \cup { << 0, 0, 4, 4, 4, 4, 4, 0, 0, 0 >>,
                   << 2, 0, 0, 6, 0, 0, 0, 0, 0, 2 >> }

ProbArgs(n, rows) == [kind |-> "probs", n |-> n, rows |-> rows]

\* what the final drawImage may leave on the temp canvas: the centred 20x20
\* square, the whole canvas, or nothing (drawn off-canvas)
Rects ==
    { [x0 |-> 4, y0 |-> 4, x1 |-> 23, y1 |-> 23],
      [x0 |-> 0, y0 |-> 0, x1 |-> TempSize - 1, y1 |-> TempSize - 1],
      [x0 |-> 1, y0 |-> 1, x1 |-> 0, y1 |-> 0] }

\* the two bytes of the drawn pixels: 196 is the last byte the boost keeps
\* below 1, 197 the first it clamps
BytePairs == { << 255, 255 >>, << 196, 197 >>, << 1, 254 >> }

\* widths and heights of the boxes handed to the scaling on its own: small
\* ones, the example's 100 and 50, and sizes whose quotient 20 / max rounds
\* (11, 77, 147)
BoxDims == {1, 2, 3, 11, 50, 77, 100, 147}
BoxArgs(w, h) == [kind |-> "box", w |-> w, h |-> h]

\* a w x h raster inked on its top-left bw x bh samples, a shift, and what the
\* browser draws
FrameArgs(w, h, bw, bh, k, rect, bytes) ==
    [kind |-> "frame", w |-> w, h |-> h,
     chan0 |-> [s \in 0 .. (w * h - 1) |->
                   IF s % w < bw /\ s \div w < bh THEN 255 ELSE 0],
     shiftX |-> shifts[k][1], shiftY |-> shifts[k][2],
     rect |-> rect, b1 |-> bytes[1], b2 |-> bytes[2]]

\* rasters of at most MaxW x MaxH samples, at most MaxInk of them non-zero;
\* answers of one to five rows; frames of rasters of at most MaxW x MaxH;
\* boxes of BoxDims x BoxDims
FnInit ==
    /\ AppInit /\ ~tfDefined /\ btnDisabled /\ cw = 1 /\ ch = 1
    /\ \/ \E w \in 1 .. MaxW, h \in 1 .. MaxH :
            \E S \in SUBSET (0 .. (w * h - 1)) :
                /\ Cardinality(S) <= MaxInk
                /\ \E f \in [S -> SampleVals \ {0}] : fnIn = RasterArgs(w, h, S, f)
       \/ \E n \in 1 .. Len(shifts) :
            \E rows \in [1 .. n -> FnRowInts] : fnIn = ProbArgs(n, rows)
       \/ \E w \in 1 .. MaxW, h \in 1 .. MaxH :
            \E bw \in 0 .. w, bh \in 0 .. h, k \in 1 .. Len(shifts) :
                \E rect \in Rects, bytes \in BytePairs :
                    fnIn = FrameArgs(w, h, bw, bh, k, rect, bytes)
       \/ \E w \in BoxDims, h \in BoxDims : fnIn = BoxArgs(w, h)
    /\ fnOut = Null

CallGetBoundingBox ==
    /\ fnIn.kind = "raster"
    /\ fnOut' = [op |-> "getBoundingBox",
                 val |-> getBoundingBox(ImageData(fnIn.chan0, fnIn.w, fnIn.h),
                                        fnIn.w, fnIn.h)]
    /\ UNCHANGED << fnIn, appVars >>

CallGetCenterOfMass ==
    /\ fnIn.kind = "raster"
    /\ fnOut' = [op |-> "getCenterOfMass",
                 val |-> getCenterOfMass(ImageData(fnIn.chan0, fnIn.w, fnIn.h),
                                         fnIn.w, fnIn.h)]
    /\ UNCHANGED << fnIn, appVars >>

CallResult ==
    /\ fnIn.kind = "probs"
    /\ fnOut' = [op |-> "result", val |-> result(flatten(fnIn.rows), fnIn.n)]
    /\ UNCHANGED << fnIn, appVars >>

\* extractInputTensor(shiftX, shiftY): null without ink, else the values read
\* back from the temp canvas
CallExtractInputTensor ==
    /\ fnIn.kind = "frame"
    /\ fnOut' = [op |-> "extractInputTensor",
                 val |-> IF extractInputTensor(fnIn.chan0, fnIn.w, fnIn.h,
                                               fnIn.shiftX, fnIn.shiftY) = Null
                         THEN Null
                         ELSE input(tempImageData(fnIn.rect, fnIn.b1, fnIn.b2))]
    /\ UNCHANGED << fnIn, appVars >>

\* the scale and the scaled dimensions of a bounding box
CallScaled ==
    /\ fnIn.kind = "box"
    /\ fnOut' = [op |-> "scaled", val |-> scaled(fnIn.w, fnIn.h)]
    /\ UNCHANGED << fnIn, appVars >>

FnNext ==
    \/ CallGetBoundingBox \/ CallGetCenterOfMass \/ CallResult
    \/ CallExtractInputTensor \/ CallScaled

SpecFn == FnInit /\ [][FnNext]_vars

\* ------------------------------------------------------------------------
\* Properties of the functions on their own (checked under SpecFn)
\* ------------------------------------------------------------------------
\* the frame extractInputTensor returned, and the bytes it was read from
FrameOut == fnOut # Null /\ fnOut.op = "extractInputTensor" /\ fnOut.val # Null
FrameBytes == tempImageData(fnIn.rect, fnIn.b1, fnIn.b2)

\* C11: whenever extractInputTensor returns a frame, whatever the raster size,
\* the box's aspect ratio and the shift, the frame has exactly 784 values, the
\* p-th being min(1, (byte / 255) * 1.3) of the first-channel byte of pixel p,
\* a byte in 0..255; hence every value lies in [0, 1].
C11_Frame784 ==
    FrameOut =>
        /\ Len(fnOut.val) = 784
        /\ \A p \in 1 .. 784 :
              LET byte == FrameBytes[4 * (p - 1)]
                  v    == fnOut.val[p]
              IN  /\ byte \in 0 .. 255
                  /\ IF 13 * byte >= 2550
                     THEN v.num = v.den
                     ELSE v.num * 2550 = 13 * byte * v.den
                  /\ 0 <= v.num /\ v.num <= v.den /\ v.den > 0

\* a frame of a 1 x 2 box in a wider raster, shifted, that holds a clamped 1
\* (byte 197), a value just under 1 (byte 196) and black background
C11_Witness ==
    /\ FrameOut
    /\ fnIn.w > 1 /\ fnIn.shiftX # 0
    /\ getBoundingBox(ImageData(fnIn.chan0, fnIn.w, fnIn.h), fnIn.w, fnIn.h).w
         # getBoundingBox(ImageData(fnIn.chan0, fnIn.w, fnIn.h), fnIn.w, fnIn.h).h
    /\ \E p \in 1 .. 784 : FrameBytes[4 * (p - 1)] = 197 /\ fnOut.val[p] = Rat(1, 1)
    /\ \E p \in 1 .. 784 :
          FrameBytes[4 * (p - 1)] = 196 /\ RatLT(fnOut.val[p], Rat(1, 1))
    /\ \E p \in 1 .. 784 : FrameBytes[4 * (p - 1)] = 0 /\ fnOut.val[p].num = 0

\* the scaled dimensions of the box fnIn, once computed
ScaledOut == fnOut # Null /\ fnOut.op = "scaled"
Larger(r) == IF dblLT(r.sw, r.sh) THEN r.sh ELSE r.sw
Smaller(r) == IF dblLT(r.sw, r.sh) THEN r.sw ELSE r.sh

\* x and y are at most k doubles apart
RECURSIVE above(_, _, _)
above(x, y, k) == x = y \/ (k > 0 /\ above(succ(x), y, k - 1))
near(x, y, k) == above(x, y, k) \/ above(y, x, k)

\* 0.2, the double nearest to 1/5: 0x1.999999999999ap-3
Double02 == Dbl(<< 4915, 1638, 3276, 6554 >>, -55)

\* for a 100 x 50 box, scale is 0.2, sw is 20 and sh is 10
Example100x50 ==
    (fnIn.w = 100 /\ fnIn.h = 50) =>
        /\ fnOut.val.scale = Double02
        /\ fnOut.val.sw = number(20)
        /\ fnOut.val.sh = number(10)

\* C12 as stated: for every bounding box with w >= 1 and h >= 1 the scaled
\* dimensions are computed without division by zero, the larger of sw and sh
\* is exactly 20, the smaller is at most 20, and sw * h = sh * w; for a
\* 100 x 50 box scale = 0.2, sw = 20 and sh = 10.
C12_ScaledExact ==
    ScaledOut =>
        /\ Max2(fnIn.w, fnIn.h) # 0 /\ fnOut.val.scale # Infinity
        /\ Larger(fnOut.val) = number(20)
        /\ dblLE(Smaller(fnOut.val), number(20))
        /\ fmul(fnOut.val.sw, fnIn.h) = fmul(fnOut.val.sh, fnIn.w)
        /\ Example100x50

\* C12, amended: for every bounding box with w >= 1 and h >= 1 the scaled
\* dimensions are computed without division by zero; sw and sh are within two
\* units in the last place of w * 20 / max(w, h) and h * 20 / max(w, h); the
\* larger of sw and sh is within one unit in the last place of 20, the smaller
\* is at most the larger, and sw * h and sh * w are at most four units in the
\* last place apart; for a 100 x 50 box scale = 0.2, sw = 20 and sh = 10.
C12_ScaledToRounding ==
    ScaledOut =>
        /\ Max2(fnIn.w, fnIn.h) # 0 /\ fnOut.val.scale # Infinity
        /\ near(fnOut.val.sw, fdiv(20 * fnIn.w, Max2(fnIn.w, fnIn.h)), 2)
        /\ near(fnOut.val.sh, fdiv(20 * fnIn.h, Max2(fnIn.w, fnIn.h)), 2)
        /\ near(Larger(fnOut.val), number(20), 1)
        /\ dblLE(Smaller(fnOut.val), Larger(fnOut.val))
        /\ near(fmul(fnOut.val.sw, fnIn.h), fmul(fnOut.val.sh, fnIn.w), 4)
        /\ Example100x50

\* a 147 x 3 box has been scaled: 20 / 147 rounds, sw is the double just
\* above 20 and sw * h is not sh * w
C12_Witness ==
    /\ ScaledOut
    /\ fnIn.w = 147 /\ fnIn.h = 3
    /\ fnOut.val.sw = succ(number(20))
    /\ dblLT(fnOut.val.sh, fnOut.val.sw)
    /\ fmul(fnOut.val.sw, fnIn.h) # fmul(fnOut.val.sh, fnIn.w)

XOf(k, w) == k % w
YOf(k, w) == k \div w

\* the ink samples of a raster argument: first channel above 50
InkOf(a) == { k \in 0 .. (a.w * a.h - 1) : a.chan0[k] > 50 }

RECURSIVE SetSum(_, _)
SetSum(S, f) ==
    IF S = {} THEN 0
    ELSE LET k == CHOOSE e \in S : TRUE IN f[k] + SetSum(S \ {k}, f)

\* C9: on a raster with ink, getBoundingBox returns the tight inclusive
\* rectangle of the samples above 50: every ink sample lies inside it, each of
\* its four edges touches an ink sample, w and h are at least 1, and a single
\* ink sample at (x,y) gives {minX: x, minY: y, w: 1, h: 1}; samples of 50 or
\* less play no part.
C9_TightBoundingBox ==
    (fnOut # Null /\ fnOut.op = "getBoundingBox" /\ InkOf(fnIn) # {}) =>
        LET b   == fnOut.val
            ink == InkOf(fnIn)
            xs  == { XOf(k, fnIn.w) : k \in ink }
            ys  == { YOf(k, fnIn.w) : k \in ink }
        IN  /\ b # Null
            /\ b.w >= 1 /\ b.h >= 1
            /\ \A x \in xs : b.minX <= x /\ x <= b.minX + b.w - 1
            /\ \A y \in ys : b.minY <= y /\ y <= b.minY + b.h - 1
            /\ b.minX \in xs /\ (b.minX + b.w - 1) \in xs
            /\ b.minY \in ys /\ (b.minY + b.h - 1) \in ys
            /\ (Cardinality(ink) = 1 =>
                  \A k \in ink : b = [minX |-> XOf(k, fnIn.w), minY |-> YOf(k, fnIn.w),
                                      w |-> 1, h |-> 1])

\* a box wider than one sample, with a sample of exactly 50 outside it
C9_Witness ==
    /\ fnOut # Null /\ fnOut.op = "getBoundingBox" /\ fnOut.val # Null
    /\ fnOut.val.w = 2 /\ fnOut.val.h = 1 /\ fnOut.val.minX = 1 /\ fnOut.val.minY = 1
    /\ \E k \in 0 .. (fnIn.w * fnIn.h - 1) : fnIn.chan0[k] = 50 /\ XOf(k, fnIn.w) = 0

\* C10: getCenterOfMass returns null exactly when no sample is above 50, and
\* otherwise the intensity-weighted mean position over the samples above 50
\* only; uniform ink symmetric about a point P gives P.
C10_CenterOfMass ==
    (fnOut # Null /\ fnOut.op = "getCenterOfMass") =>
        LET c    == fnOut.val
            ink  == InkOf(fnIn)
            WX   == [k \in ink |-> XOf(k, fnIn.w) * fnIn.chan0[k]]
            WY   == [k \in ink |-> YOf(k, fnIn.w) * fnIn.chan0[k]]
            M    == [k \in ink |-> fnIn.chan0[k]]
            uniform == \A k1 \in ink, k2 \in ink : fnIn.chan0[k1] = fnIn.chan0[k2]
            \* symmetric about (px/2, py/2)
            sym(px, py) ==
                \A k \in ink : \E m \in ink :
                    /\ XOf(m, fnIn.w) = px - XOf(k, fnIn.w)
                    /\ YOf(m, fnIn.w) = py - YOf(k, fnIn.w)
        IN  /\ (c = Null) <=> (ink = {})
            /\ ink # {} =>
                 /\ RatEQ(c.x, Rat(SetSum(ink, WX), SetSum(ink, M)))
                 /\ RatEQ(c.y, Rat(SetSum(ink, WY), SetSum(ink, M)))
                 /\ \A px \in 0 .. 2 * (fnIn.w - 1), py \in 0 .. 2 * (fnIn.h - 1) :
                      (uniform /\ sym(px, py)) =>
                          RatEQ(c.x, Rat(px, 2)) /\ RatEQ(c.y, Rat(py, 2))

\* ink of two different intensities and a sample of exactly 50: the weighted
\* mean differs from the unweighted one and from one that counts the 50
C10_Witness ==
    /\ fnOut # Null /\ fnOut.op = "getCenterOfMass" /\ fnOut.val # Null
    /\ fnIn.w = 3
    /\ fnIn.chan0[0] = 51 /\ fnIn.chan0[1] = 50 /\ fnIn.chan0[2] = 255
    /\ RatEQ(fnOut.val.x, Rat(510, 306))

RECURSIVE SeqSum(_)
SeqSum(q) == IF q = << >> THEN 0 ELSE q[1] + SeqSum(Tail(q))

RECURSIVE RatTotal(_, _)
RatTotal(avg, j) == IF j > 9 THEN Rat(0, 1) ELSE RatAdd(avg[j], RatTotal(avg, j + 1))

\* class a is ranked before class b: higher probability, or equal and lower index
RankedBefore(avg, a, b) ==
    \/ RatLT(avg[b], avg[a])
    \/ RatEQ(avg[a], avg[b]) /\ a < b

\* the class with exactly k classes ranked before it
ClassAtRank(avg, k) ==
    CHOOSE j \in 0 .. 9 : Cardinality({ a \in 0 .. 9 : RankedBefore(avg, a, j) }) = k

\* [0.1, 0.05, 0.6, 0.0, 0.05, 0.0, 0.1, 0.0, 0.1, 0.0]
ExampleVector ==
    [j \in 0 .. 9 |-> Rat(<< 2, 1, 12, 0, 1, 0, 2, 0, 2, 0 >>[j + 1], 20)]

\* C7: the contender list is the first 3 classes in the order of descending
\* probability, equal probabilities by lower class index first, each with its
\* own probability; the vector [0.1,0.05,0.6,0,0.05,0,0.1,0,0.1,0] gives the
\* classes 2, 0, 6 in that order.
C7_ContendersRanked ==
    (fnOut # Null /\ fnOut.op = "result") =>
        LET avg    == fnOut.val.avg
            sorted == fnOut.val.sorted
        IN  /\ Len(sorted) = 3
            /\ \A k \in 1 .. 3 :
                 /\ sorted[k].i = ClassAtRank(avg, k - 1)
                 /\ sorted[k].p = avg[sorted[k].i]
            /\ (\A j \in 0 .. 9 : RatEQ(avg[j], ExampleVector[j])) =>
                 << sorted[1].i, sorted[2].i, sorted[3].i >> = << 2, 0, 6 >>

\* the example vector, as the mean of five rows
C7_Witness ==
    /\ fnOut # Null /\ fnOut.op = "result"
    /\ fnIn.n = 5
    /\ \A j \in 0 .. 9 : RatEQ(fnOut.val.avg[j], ExampleVector[j])
    /\ << fnOut.val.sorted[1].i, fnOut.val.sorted[2].i, fnOut.val.sorted[3].i >>
         = << 2, 0, 6 >>

Started == Len(invs') = Len(invs) + 1
NewInv == invs'[Len(invs')]

NoInk == \A k \in 0 .. (cw * ch - 1) : hidden[k] <= 50

FrameCount ==
    Cardinality({ k \in 1 .. Len(shifts) :
        extractInputTensor(hidden, cw, ch, shifts[k][1], shifts[k][2]) # Null })

\* C1: a predict invocation that runs with a loaded model on a raster with ink
\* calls the model exactly once, on one batch with as many rows as non-null
\* frames were built for the five shifts (at most 5); the call count of an
\* invocation never changes afterwards.
C1_OneBatchedCall ==
    [][ /\ (Started /\ ~NoInk) =>
              /\ NewInv.calls = 1
              /\ NewInv.n = FrameCount /\ NewInv.n <= 5
              /\ NewInv.batch = "live"
              /\ NewInv.pc = "await" => Len(NewInv.rows) = NewInv.n
        /\ \A i \in 1 .. Len(invs) :
              invs'[i].calls = invs[i].calls /\ invs'[i].n = invs[i].n
      ]_vars

\* an invocation that ran to its end on a 5-row batch with its one call
C1_Witness ==
    \E i \in 1 .. Len(invs) :
        invs[i].pc = "done" /\ invs[i].calls = 1 /\ invs[i].n = 5

\* C2: with no sample above 50, getBoundingBox returns null, extractInputTensor
\* returns null for every shift, and the invocation ends normally: no model
\* call, no tensor, no error, and the displayed prediction is "?".
C2_NoInkIsNormal ==
    [][ (Started /\ NoInk) =>
            /\ getBoundingBox(ImageData(hidden, cw, ch), cw, ch) = Null
            /\ \A k \in 1 .. Len(shifts) :
                  extractInputTensor(hidden, cw, ch, shifts[k][1], shifts[k][2]) = Null
            /\ NewInv = [pc |-> "noink", n |-> 0, calls |-> 0, batch |-> "none",
                         preds |-> "none", rows |-> << >>]
            /\ predictionResult' = "?"
      ]_vars

\* the latest invocation ended on no ink, with a sample of exactly 50 on the
\* raster and an earlier invocation having shown a digit
C2_Witness ==
    /\ Len(invs) = 2
    /\ invs[1].pc = "done" /\ invs[2].pc = "noink"
    /\ predictionResult = "?"
    /\ \E k \in 0 .. (cw * ch - 1) : hidden[k] = 50

\* C3 as stated: when no invocation is in flight, no tensor created by predict
\* is live (every ended invocation has disposed its batch and its prediction)
C3_AllDisposed ==
    \A i \in 1 .. Len(invs) :
        invs[i].pc \in {"noink", "done", "threw"} =>
            invs[i].batch # "live" /\ invs[i].preds # "live"

PcBefore(i) == IF i <= Len(invs) THEN invs[i].pc ELSE "none"

\* C4: when the model call or the read of its result fails, the invocation
\* ends there: the model was called once and is not called again for it,
\* nothing is written to prediction, confidence or contenders for it, and the
\* model handle and the button are left as they were.
C4_FailureNotRecovered ==
    [][ \A i \in 1 .. Len(invs') :
          /\ (invs'[i].pc = "threw" /\ PcBefore(i) # "threw") =>
                /\ invs'[i].calls = 1
                /\ predictionResult' = predictionResult
                /\ confidenceValue' = confidenceValue
                /\ confidenceBar' = confidenceBar
                /\ contendersList' = contendersList
                /\ model' = model
                /\ btnDisabled' = btnDisabled
          /\ PcBefore(i) = "threw" => invs'[i] = invs[i]
          /\ PcBefore(i) = "await" => invs'[i].calls = invs[i].calls
      ]_vars

\* a failed invocation followed by one that completed and shows its digit
C4_Witness ==
    /\ Len(invs) = 2
    /\ invs[1].pc = "threw" /\ invs[2].pc = "done"
    /\ predictionResult \notin {"?", "markup"}
    /\ model = "loaded" /\ ~btnDisabled

\* the model has not been loaded successfully
NotLoaded == statusText # "System Ready"

\* C5 as stated: while the model has not been loaded successfully no predict
\* request starts the pipeline (no invocation, no frame on the sensor, no
\* latency shown), and after a failed load the status stays "Model Error" and
\* the button is not enabled
C5_RefusedUnlessLoaded ==
    [][ NotLoaded =>
          /\ invs' = invs
          /\ sensor' = "digit" => sensor = "digit"
          /\ latencyMetric' = latencyMetric
          /\ statusText = "Model Error" =>
                statusText' = "Model Error" /\ btnDisabled' = btnDisabled
      ]_vars

\* C6: the batch sent to the model has 0 frames (the request ends with no
\* result) or all 5, in the order (0,0),(0,1),(0,-1),(1,0),(-1,0), all built
\* from the raster as it is at the click and from one bounding box; the batch
\* of an invocation in flight does not change under later events.
C6_AllOrNothingBatch ==
    [][ /\ Started =>
              /\ NewInv.n \in {0, 5}
              /\ NewInv.n = 0 => NewInv.pc = "noink"
              /\ NewInv.pc = "await" =>
                    /\ Len(NewInv.rows) = 5
                    /\ [k \in 1 .. 5 |-> << NewInv.rows[k].shiftX, NewInv.rows[k].shiftY >>]
                          = << <<0, 0>>, <<0, 1>>, <<0, -1>>, <<1, 0>>, <<-1, 0>> >>
                    /\ \A k \in 1 .. 5 :
                          /\ NewInv.rows[k].src = [w |-> cw, h |-> ch, chan0 |-> hidden]
                          /\ NewInv.rows[k].bbox = NewInv.rows[1].bbox
        /\ \A i \in 1 .. Len(invs) :
              /\ invs'[i].n = invs[i].n
              /\ invs'[i].pc = "await" => invs'[i].rows = invs[i].rows
      ]_vars

\* two invocations in flight at once, their batches built from different
\* rasters, the canvas since cleared
C6_Witness ==
    /\ Len(invs) = 2
    /\ invs[1].pc = "await" /\ invs[2].pc = "await"
    /\ invs[1].rows[1].src # invs[2].rows[1].src
    /\ NoInk

\* startup has run and the script has written the prediction display (the
\* board was cleared by initCanvas or by the first resizeCanvas)
AfterStartup == phase = "done" /\ predictionResult # "markup"

\* no predict invocation is suspended at "await preds.data()"
NoneSuspended == \A i \in 1 .. Len(invs) : invs[i].pc # "await"

\* C13 as stated: after startup, whenever the hidden raster is blank (no
\* sample above 50) and no predict invocation is suspended at the model await,
\* the displayed prediction is "?": the result of a predict that was in
\* flight when the board was cleared does not overwrite the cleared display.
C13_BlankShowsQuestionMark ==
    (AfterStartup /\ NoInk /\ NoneSuspended) => predictionResult = "?"

====
